---- MODULE Spec2Model ----
(***************************************************************************)
(* Part one: rule configuration objects of sagemaker.debugger: the         *)
(* factories                                                               *)
(* Rule.sagemaker, Rule.custom, ProfilerRule.sagemaker and                 *)
(* ProfilerRule.custom, the shared parameter merge                         *)
(* RuleBase._set_rule_parameters, and the two serializers                  *)
(* to_debugger_rule_config_dict / to_profiler_rule_config_dict.            *)
(*                                                                         *)
(* Python values are tagged records, so that None, "", 0, "5" and 5 stay   *)
(* distinct.  Mutable dicts live in `heap` and are named by references, so *)
(* that aliasing between a caller's mapping, a rule and a request is       *)
(* visible.  A behaviour is one caller: Init draws the arguments of one    *)
(* call, the factory actions build rules from them and the serializer      *)
(* actions turn built rules into request mappings.                         *)
(*                                                                         *)
(* Part two: the value objects of sagemaker.debugger (CollectionConfig,    *)
(* DebuggerHookConfig, TensorBoardOutputConfig), the data holders of       *)
(* sagemaker.jumpstart.types and sagemaker.model_uris.retrieve.  Each has  *)
(* a specification of its own over the same variables: ConfigSpec,         *)
(* HolderSpec and RetrieveSpec.                                            *)
(***************************************************************************)
EXTENDS Integers, Sequences, FiniteSets, TLC

VARIABLES
    args,      \* the caller's arguments (args.op names the factory called)
    heap,      \* sequence of dict objects; a reference names an index
    rules,     \* the rule objects built so far, in order of construction
    outcome,   \* "none", "ok" or the class of the error the last call raised
    request,   \* the mapping returned by the last serializer call, or None
    last,      \* what the last step was, and the heap it started from
    returned,  \* the values returned by the calls made on the objects, by call
    calls      \* the invocations of collaborators made so far, in order

vars == <<args, heap, rules, outcome, request, last, returned, calls>>

---------------------------------------------------------------------------
(* Bounds of the model *)

MaxTrials == 2     \* longest other_trials_s3_input_paths list
MaxParams == 1     \* most entries in a caller-supplied rule_parameters
MaxRules == 1      \* most rules built from one set of arguments

---------------------------------------------------------------------------
(* Python values *)

None == [t |-> "none"]
S(s) == [t |-> "str", s |-> s]
I(n) == [t |-> "int", n |-> n]
B(b) == [t |-> "bool", b |-> b]
D(f) == [t |-> "dict", d |-> f]
L(q) == [t |-> "list", items |-> q]
Ref(i) == [t |-> "ref", id |-> i]

EmptyDict == [k \in {} |-> None]

\* bool(v): Python truthiness
Truthy(v) ==
    CASE v.t = "none" -> FALSE
      [] v.t = "str"  -> v.s # ""
      [] v.t = "int"  -> v.n # 0
      [] v.t = "bool" -> v.b
      [] v.t = "dict" -> DOMAIN v.d # {}
      [] v.t = "list" -> Len(v.items) > 0
      [] OTHER        -> TRUE

\* a or b
Or(a, b) == IF Truthy(a) THEN a ELSE b

Digit == <<"0", "1", "2", "3", "4", "5", "6", "7", "8", "9">>

RECURSIVE IntToStr(_)
\* str(n) for a natural number n
IntToStr(n) ==
    IF n < 10 THEN Digit[n + 1] ELSE IntToStr(n \div 10) \o Digit[(n % 10) + 1]

\* str(v) for the scalar values a rule parameter can hold
StrOf(v) ==
    CASE v.t = "str"  -> v
      [] v.t = "int"  -> S(IntToStr(v.n))
      [] v.t = "bool" -> S(IF v.b THEN "True" ELSE "False")
      [] v.t = "none" -> S("None")

\* d.update(e)
Update(d, e) ==
    [k \in (DOMAIN d) \cup (DOMAIN e) |-> IF k \in DOMAIN e THEN e[k] ELSE d[k]]

\* d.get(key, default)
Get(d, key, default) == IF key \in DOMAIN d THEN d[key] ELSE default

\* sagemaker.utils.build_dict(key, value)
build_dict(key, value) ==
    IF value = None THEN EmptyDict ELSE [k \in {key} |-> value]

\* mutant: the keys are numbered from 1
OtherTrialKey_FromOne(index) == "other_trial_" \o IntToStr(index + 1)

\* "other_trial_{}".format(str(index)), index counted from 0
OtherTrialKey(index) == "other_trial_" \o IntToStr(index)

---------------------------------------------------------------------------
(* Objects *)

\* truthiness of a value that may be a reference to a dict of heap h
HTruthy(h, v) == IF v.t = "ref" THEN DOMAIN h[v.id] # {} ELSE Truthy(v)

\* CollectionConfig.__init__
CollectionConfig(name, parameters) ==
    [t |-> "CollectionConfig", name |-> name, parameters |-> parameters]

\* RuleBase attributes (attr.s), plus Rule.__init__'s collection_configs
NewRule(cls, name, image_uri, instance_type, container_local_output_path, s3_output_path, volume_size_in_gb, rule_parameters, collections_to_save) ==
    [cls |-> cls,
     name |-> name,
     image_uri |-> image_uri,
     instance_type |-> instance_type,
     container_local_output_path |-> container_local_output_path,
     s3_output_path |-> s3_output_path,
     volume_size_in_gb |-> volume_size_in_gb,
     rule_parameters |-> rule_parameters,
     collection_configs |-> collections_to_save]

\* the result of a call: the error class raised ("" for none), the heap
\* the call leaves, and the value returned
Raise(err, h) == [raised |-> err, heap |-> h, result |-> None]
Return(h, v) == [raised |-> "", heap |-> h, result |-> v]

---------------------------------------------------------------------------
(* The parameter merges *)

\* mutant: a source without a rule is rejected, but not a rule without a source
PairingFails_OneWay(source, rule_to_invoke) == Truthy(source) /\ ~Truthy(rule_to_invoke)

\* the pairing check of RuleBase._set_rule_parameters
PairingFails(source, rule_to_invoke) == Truthy(source) # Truthy(rule_to_invoke)

\* rule_parameters or {}, read from heap h
ParamsOrEmpty(h, rule_parameters) ==
    IF HTruthy(h, rule_parameters) THEN h[rule_parameters.id] ELSE EmptyDict

\* mutant: the caller's entries are merged first, so the arguments win
RuleBase_set_rule_parameters_ArgsWin(h, source, rule_to_invoke, rule_parameters) ==
    IF PairingFails(source, rule_to_invoke)
    THEN Raise("ValueError", h)
    ELSE LET m1 == Update(EmptyDict, ParamsOrEmpty(h, rule_parameters))
             m2 == Update(m1, build_dict("source_s3_uri", source))
             m3 == Update(m2, build_dict("rule_to_invoke", rule_to_invoke))
         IN  Return(Append(h, m3), Ref(Len(h) + 1))

\* RuleBase._set_rule_parameters: the merged mapping is a new dict
RuleBase_set_rule_parameters(h, source, rule_to_invoke, rule_parameters) ==
    IF PairingFails(source, rule_to_invoke)
    THEN Raise("ValueError", h)
    ELSE LET m1 == Update(EmptyDict, build_dict("source_s3_uri", source))
             m2 == Update(m1, build_dict("rule_to_invoke", rule_to_invoke))
             m3 == Update(m2, ParamsOrEmpty(h, rule_parameters))
         IN  Return(Append(h, m3), Ref(Len(h) + 1))

RECURSIVE EnumerateTrials(_, _, _)
\* for index, s3_input_path in enumerate(paths): merged[other_trial_<index>] = path
EnumerateTrials(merged, paths, index) ==
    IF index >= Len(paths)
    THEN merged
    ELSE EnumerateTrials(
             Update(merged, [k \in {OtherTrialKey(index)} |-> paths[index + 1]]),
             paths, index + 1)

\* the other-trial expansion, skipped when the list is None
OtherTrials(other_trials_s3_input_paths) ==
    IF other_trials_s3_input_paths # None
    THEN EnumerateTrials(EmptyDict, other_trials_s3_input_paths.items, 0)
    ELSE EmptyDict

\* mutant: the other-trial keys are written after the shared merge
Rule_set_rule_parameters_TrialsLast(h, source, rule_to_invoke, other_trials_s3_input_paths, rule_parameters) ==
    LET m0 == OtherTrials(other_trials_s3_input_paths)
        base == RuleBase_set_rule_parameters(h, source, rule_to_invoke, rule_parameters)
    IN  IF base.raised # ""
        THEN base
        ELSE Return(Append(base.heap, Update(base.heap[base.result.id], m0)),
                    Ref(Len(base.heap) + 1))

\* Rule._set_rule_parameters: other-trial keys, then the shared merge
Rule_set_rule_parameters(h, source, rule_to_invoke, other_trials_s3_input_paths, rule_parameters) ==
    LET m0 == OtherTrials(other_trials_s3_input_paths)
        base == RuleBase_set_rule_parameters(h, source, rule_to_invoke, rule_parameters)
    IN  IF base.raised # ""
        THEN base
        ELSE Return(Append(base.heap, Update(m0, base.heap[base.result.id])),
                    Ref(Len(base.heap) + 1))

---------------------------------------------------------------------------
(* The factories.  a is the record of the caller's arguments; a dict       *)
(* argument is a reference into h or None.                                 *)

\* the CollectionConfig list Rule.sagemaker derives from the base config
BaseConfigCollections(base_config) ==
    LET configs == Get(base_config.d, "CollectionConfigurations", L(<<>>)).items
    IN  [i \in 1..Len(configs) |->
            CollectionConfig(Get(configs[i].d, "CollectionName", None),
                             Get(configs[i].d, "CollectionParameters", D(EmptyDict)))]

\* mutant: the guard looks for the wrong key
HasRuleToInvoke_WrongKey(h, rule_parameters) ==
    /\ rule_parameters # None
    /\ Get(h[rule_parameters.id], "source_s3_uri", None) # None

\* the guard of Rule.sagemaker against a caller-supplied rule_to_invoke
HasRuleToInvoke(h, rule_parameters) ==
    /\ rule_parameters # None
    /\ Get(h[rule_parameters.id], "rule_to_invoke", None) # None

\* mutant: the base config's defaults are merged last and win
SagemakerMerge_DefaultsWin(h, base_config, other_trials_s3_input_paths, rule_parameters) ==
    LET m0 == OtherTrials(other_trials_s3_input_paths)
        default_rule_params ==
            Get(base_config.d["DebugRuleConfiguration"].d, "RuleParameters", D(EmptyDict)).d
        m1 == Update(m0, ParamsOrEmpty(h, rule_parameters))
    IN  Update(m1, default_rule_params)

\* the three-layer merge of Rule.sagemaker
SagemakerMerge(h, base_config, other_trials_s3_input_paths, rule_parameters) ==
    LET m0 == OtherTrials(other_trials_s3_input_paths)
        default_rule_params ==
            Get(base_config.d["DebugRuleConfiguration"].d, "RuleParameters", D(EmptyDict)).d
        m1 == Update(m0, default_rule_params)
    IN  Update(m1, ParamsOrEmpty(h, rule_parameters))

\* mutant: the default is taken only when collections_to_save is None
CollectionsOr_NoneOnly(collections_to_save, default) ==
    IF collections_to_save = None THEN L(default) ELSE collections_to_save

\* collections_to_save or <default list>
CollectionsOr(collections_to_save, default) == Or(collections_to_save, L(default))

\* mutant: the base config's name is preferred to the caller's
NameOr_BaseFirst(name, base_name) == Or(base_name, name)

\* name or <the base config's rule name>
NameOr(name, base_name) == Or(name, base_name)

\* Rule.sagemaker
Rule_sagemaker(h, a) ==
    IF HasRuleToInvoke(h, a.rule_parameters)
    THEN Raise("RuntimeError", h)
    ELSE IF "DebugRuleConfiguration" \notin DOMAIN a.base_config.d
    THEN Raise("KeyError", h)
    ELSE LET merged == SagemakerMerge(h, a.base_config, a.other_trials_s3_input_paths, a.rule_parameters)
             drc == a.base_config.d["DebugRuleConfiguration"].d
         IN  Return(Append(h, merged),
                    NewRule("Rule",
                            NameOr(a.name, Get(drc, "RuleConfigurationName", None)),
                            S("DEFAULT_RULE_EVALUATOR_IMAGE"),
                            None,
                            a.container_local_output_path,
                            a.s3_output_path,
                            None,
                            Ref(Len(h) + 1),
                            CollectionsOr(a.collections_to_save, BaseConfigCollections(a.base_config))))

\* Rule.custom
Rule_custom(h, a) ==
    LET m == Rule_set_rule_parameters(h, a.source, a.rule_to_invoke, a.other_trials_s3_input_paths, a.rule_parameters)
    IN  IF m.raised # ""
        THEN m
        ELSE Return(m.heap,
                    NewRule("Rule", a.name, a.image_uri, a.instance_type,
                            a.container_local_output_path, a.s3_output_path,
                            a.volume_size_in_gb, m.result,
                            CollectionsOr(a.collections_to_save, <<>>)))

\* ProfilerRule.sagemaker: the rule holds the base config's own mapping
ProfilerRule_sagemaker(h, a) ==
    Return(h,
           NewRule("ProfilerRule",
                   NameOr(a.name, a.base_config.rule_name),
                   S("DEFAULT_RULE_EVALUATOR_IMAGE"),
                   None,
                   a.container_local_output_path,
                   a.s3_output_path,
                   None,
                   a.base_config.rule_parameters,
                   None))

\* ProfilerRule.custom
ProfilerRule_custom(h, a) ==
    LET m == RuleBase_set_rule_parameters(h, a.source, a.rule_to_invoke, a.rule_parameters)
    IN  IF m.raised # ""
        THEN m
        ELSE Return(m.heap,
                    NewRule("ProfilerRule", a.name, a.image_uri, a.instance_type,
                            a.container_local_output_path, a.s3_output_path,
                            a.volume_size_in_gb, m.result, None))

---------------------------------------------------------------------------
(* The serializers *)

\* mutant: the two output paths are read from each other's attribute
RequestHead_SwappedPaths(rule) ==
    LET r0 == [k \in {"RuleConfigurationName", "RuleEvaluatorImage"} |->
                  IF k = "RuleConfigurationName" THEN rule.name ELSE rule.image_uri]
        r1 == Update(r0, build_dict("InstanceType", rule.instance_type))
        r2 == Update(r1, build_dict("VolumeSizeInGB", rule.volume_size_in_gb))
        r3 == Update(r2, build_dict("LocalPath", rule.s3_output_path))
    IN  Update(r3, build_dict("S3OutputPath", rule.container_local_output_path))

\* the part both serializers share: the two required keys, then one
\* build_dict per optional attribute other than rule_parameters
RequestHead(rule) ==
    LET r0 == [k \in {"RuleConfigurationName", "RuleEvaluatorImage"} |->
                  IF k = "RuleConfigurationName" THEN rule.name ELSE rule.image_uri]
        r1 == Update(r0, build_dict("InstanceType", rule.instance_type))
        r2 == Update(r1, build_dict("VolumeSizeInGB", rule.volume_size_in_gb))
        r3 == Update(r2, build_dict("LocalPath", rule.container_local_output_path))
    IN  Update(r3, build_dict("S3OutputPath", rule.s3_output_path))

\* Rule.to_debugger_rule_config_dict
to_debugger_rule_config_dict(h, rule) ==
    Return(h, Update(RequestHead(rule), build_dict("RuleParameters", rule.rule_parameters)))

\* mutant: the loop leaves the values as they are
Stringify_Skip(d) == d

\* the in-place loop of to_profiler_rule_config_dict: d[k] = str(v)
Stringify(d) == [k \in DOMAIN d |-> StrOf(d[k])]

\* ProfilerRule.to_profiler_rule_config_dict: the request holds the rule's
\* own mapping, whose values the loop rewrites in place
to_profiler_rule_config_dict(h, rule) ==
    IF HTruthy(h, rule.rule_parameters)
    THEN Return([h EXCEPT ![rule.rule_parameters.id] = Stringify(@)],
                Update(RequestHead(rule),
                       [k \in {"RuleParameters"} |-> rule.rule_parameters]))
    ELSE Return(h, RequestHead(rule))

---------------------------------------------------------------------------
(* The callers' arguments *)

Names == {None, S(""), S("my-rule")}
LocalPaths == {None, S("/opt/ml/processing/output")}
S3Paths == {None, S("s3://bucket/rule-output")}
InstanceTypes == {None, S("ml.c4.xlarge")}
VolumeSizes == {None, I(30)}
Sources == {None, S(""), S("s3://bucket/rules/my_rule.py")}
RulesToInvoke == {None, S(""), S("MyRule")}
\* the i-th path of a caller's other-trials list (all distinct)
TrialPath(i) == "s3://bucket/trial-" \o IntToStr(7 * i)
ParamKeys == {"rule_to_invoke", "source_s3_uri", "other_trial_0", "threshold"}
ParamVals == {None, S("x"), I(12)}

\* other_trials_s3_input_paths: None, or a list of at most MaxTrials paths
TrialLists ==
    {None} \cup {L([i \in 1..n |-> S(TrialPath(i))]) : n \in 0..MaxTrials}

\* the mappings a caller may pass as rule_parameters
ParamDicts ==
    UNION {[K -> ParamVals] : K \in {X \in SUBSET ParamKeys : Cardinality(X) <= MaxParams}}

\* collections_to_save: None, an empty list, or one CollectionConfig
CollectionLists ==
    {None, L(<<>>), L(<<CollectionConfig(S("weights"), D([k \in {"save_interval"} |-> S("10")]))>>)}

\* base configs of smdebug_rulesconfig for Rule.sagemaker: with and without
\* default parameters, a name, collection configurations (whose entries may
\* lack a name or parameters)
DebuggerBaseConfigs ==
    { D([k \in {"DebugRuleConfiguration", "CollectionConfigurations"} |->
           IF k = "DebugRuleConfiguration"
           THEN D([j \in {"RuleConfigurationName", "RuleParameters"} |->
                      IF j = "RuleConfigurationName"
                      THEN S("VanishingGradient")
                      ELSE D([p \in {"rule_to_invoke", "threshold"} |->
                                 IF p = "rule_to_invoke" THEN S("VanishingGradient")
                                                         ELSE S("0.0000001")])])
           ELSE L(<<D([j \in {"CollectionName", "CollectionParameters"} |->
                         IF j = "CollectionName" THEN S("gradients")
                         ELSE D([p \in {"save_interval"} |-> S("500")])])>>)]),
      D([k \in {"DebugRuleConfiguration"} |->
           D([j \in {"RuleConfigurationName"} |-> S("LossNotDecreasing")])]),
      D([k \in {"DebugRuleConfiguration", "CollectionConfigurations"} |->
           IF k = "DebugRuleConfiguration"
           THEN D([j \in {"RuleParameters"} |->
                      D([p \in {"other_trial_0"} |-> S("s3://bucket/default-trial")])])
           ELSE L(<<D([j \in {"CollectionName"} |-> S("losses")]),
                    D([j \in {"CollectionParameters"} |->
                         D([p \in {"include_regex"} |-> S(".*")])])>>)]) }

\* rule_parameters of the base config objects given to ProfilerRule.sagemaker
ProfilerDefaults ==
    { [p \in {"rule_to_invoke", "cpu_threshold_p95"} |->
          IF p = "rule_to_invoke" THEN S("ProfilerReport") ELSE I(70)],
      [p \in {"rule_to_invoke", "scan_interval_us"} |->
          IF p = "rule_to_invoke" THEN S("CPUBottleneck") ELSE B(TRUE)],
      EmptyDict }

SagemakerArgs ==
    [op : {"Rule.sagemaker"}, base_config : DebuggerBaseConfigs, name : Names,
     container_local_output_path : LocalPaths, s3_output_path : S3Paths,
     other_trials_s3_input_paths : TrialLists, rule_parameters : {None, Ref(1)},
     collections_to_save : CollectionLists]

CustomArgs ==
    [op : {"Rule.custom"}, name : {S("my-rule")}, image_uri : {S("image:latest")},
     instance_type : InstanceTypes, volume_size_in_gb : VolumeSizes,
     source : Sources, rule_to_invoke : RulesToInvoke,
     container_local_output_path : LocalPaths, s3_output_path : S3Paths,
     other_trials_s3_input_paths : TrialLists, rule_parameters : {None, Ref(1)},
     collections_to_save : CollectionLists]

ProfilerSagemakerArgs ==
    [op : {"ProfilerRule.sagemaker"},
     base_config : [rule_name : {S("ProfilerReport")}, rule_parameters : {None, Ref(1)}],
     name : Names, container_local_output_path : LocalPaths, s3_output_path : S3Paths]

ProfilerCustomArgs ==
    [op : {"ProfilerRule.custom"}, name : {S("my-rule")}, image_uri : {S("image:latest")},
     instance_type : InstanceTypes, volume_size_in_gb : VolumeSizes,
     source : Sources, rule_to_invoke : RulesToInvoke,
     container_local_output_path : LocalPaths, s3_output_path : S3Paths,
     rule_parameters : {None, Ref(1)}]

\* the reference, if any, to the mapping the caller owns
CallerDict(a) ==
    IF a.op = "ProfilerRule.sagemaker" THEN a.base_config.rule_parameters
                                       ELSE a.rule_parameters

\* the contents that mapping may have
CallerDicts(a) == IF a.op = "ProfilerRule.sagemaker" THEN ProfilerDefaults ELSE ParamDicts

NoStep == [step |-> "none", rule |-> 0, heap |-> <<>>]

Init ==
    /\ args \in SagemakerArgs \cup CustomArgs \cup ProfilerSagemakerArgs \cup ProfilerCustomArgs
    /\ heap \in IF CallerDict(args) = None THEN {<<>>} ELSE {<<d>> : d \in CallerDicts(args)}
    /\ rules = <<>>
    /\ outcome = "none"
    /\ request = None
    /\ last = NoStep
    /\ returned = <<>>
    /\ calls = <<>>

---------------------------------------------------------------------------
(* Actions *)

\* a factory call with the caller's arguments: a rule is built, or the
\* call raises and builds nothing
Construct(op, res) ==
    /\ args.op = op
    /\ outcome \in {"none", "ok"}
    /\ Len(rules) < MaxRules
    /\ heap' = res.heap
    /\ rules' = IF res.raised = "" THEN Append(rules, res.result) ELSE rules
    /\ outcome' = IF res.raised = "" THEN "ok" ELSE res.raised
    /\ last' = [step |-> op, rule |-> IF res.raised = "" THEN Len(rules) + 1 ELSE 0, heap |-> heap]
    /\ UNCHANGED <<args, request, returned, calls>>

RuleSagemaker == Construct("Rule.sagemaker", Rule_sagemaker(heap, args))

RuleCustom == Construct("Rule.custom", Rule_custom(heap, args))

ProfilerRuleSagemaker == Construct("ProfilerRule.sagemaker", ProfilerRule_sagemaker(heap, args))

ProfilerRuleCustom == Construct("ProfilerRule.custom", ProfilerRule_custom(heap, args))

\* a serializer call on the i-th rule built
Serialize(step, i, res) ==
    /\ heap' = res.heap
    /\ request' = D(res.result)
    /\ last' = [step |-> step, rule |-> i, heap |-> heap]
    /\ UNCHANGED <<args, rules, outcome, returned, calls>>

ToDebuggerRuleConfigDict ==
    \E i \in 1..Len(rules) :
        /\ rules[i].cls = "Rule"
        /\ Serialize("to_debugger_rule_config_dict", i, to_debugger_rule_config_dict(heap, rules[i]))

ToProfilerRuleConfigDict ==
    \E i \in 1..Len(rules) :
        /\ rules[i].cls = "ProfilerRule"
        /\ Serialize("to_profiler_rule_config_dict", i, to_profiler_rule_config_dict(heap, rules[i]))

Next ==
    \/ RuleSagemaker
    \/ RuleCustom
    \/ ProfilerRuleSagemaker
    \/ ProfilerRuleCustom
    \/ ToDebuggerRuleConfigDict
    \/ ToProfilerRuleConfigDict

Spec == Init /\ [][Next]_vars

---------------------------------------------------------------------------
(* Vocabulary of the properties *)

\* the rule the last factory call built
Built == rules[last.rule]

\* the last step was a successful call of factory op
Succeeded(op) == last.step = op /\ outcome = "ok"

\* the last step was a call of factory op that raised err and built nothing
Failed(op, err) == last.step = op /\ outcome = err /\ rules = <<>>

\* the caller's rule_parameters as they were when the last step began
\* (an absent mapping contributes no entries)
GivenParams == IF args.rule_parameters = None THEN EmptyDict ELSE last.heap[args.rule_parameters.id]

\* the mapping a built rule holds now
ParamsOf(rule) == heap[rule.rule_parameters.id]

\* a string argument that is neither None nor empty
NonEmpty(v) == v # None /\ v # S("")

CustomOps == {"Rule.custom", "ProfilerRule.custom"}

---------------------------------------------------------------------------
(* Properties *)

\* C1 (as stated): Rule.custom and ProfilerRule.custom raise ValueError and
\* build no rule exactly when one of source / rule_to_invoke is given (not
\* None) and the other is not.
C1_AsStated ==
    last.step \in CustomOps =>
        ((outcome = "ValueError" /\ rules = <<>>)
            <=> ((args.source # None) # (args.rule_to_invoke # None)))

\* C1 (amended): Rule.custom and ProfilerRule.custom raise ValueError and
\* build no rule exactly when one of source / rule_to_invoke is a non-empty
\* string and the other is None or empty, whatever rule_parameters and
\* other_trials_s3_input_paths are; otherwise the call builds a rule.
C1_PairingCheck ==
    last.step \in CustomOps =>
        /\ (outcome = "ValueError" /\ rules = <<>>)
               <=> (NonEmpty(args.source) # NonEmpty(args.rule_to_invoke))
        /\ (NonEmpty(args.source) = NonEmpty(args.rule_to_invoke))
               => (outcome = "ok" /\ last.rule = Len(rules) /\ Len(rules) >= 1)

\* C1 witness: a rule to invoke without a source, with rule parameters
\* given, has been rejected by Rule.custom.
C1_Witness ==
    /\ Failed("Rule.custom", "ValueError")
    /\ args.source = None
    /\ args.rule_to_invoke = S("MyRule")
    /\ args.rule_parameters # None
    /\ args.other_trials_s3_input_paths # None


\* the entries the arguments source / rule_to_invoke contribute
ArgEntries ==
    (IF args.source # None THEN {"source_s3_uri"} ELSE {})
        \cup (IF args.rule_to_invoke # None THEN {"rule_to_invoke"} ELSE {})

ArgEntry(k) == IF k = "source_s3_uri" THEN args.source ELSE args.rule_to_invoke

\* the caller's other-trial paths (none when the list is absent)
GivenTrials ==
    IF args.other_trials_s3_input_paths = None THEN <<>> ELSE args.other_trials_s3_input_paths.items

\* the names other_trial_0 .. other_trial_(n-1), written out
TrialKeys == {"other_trial_" \o IntToStr(i) : i \in 0..(Len(GivenTrials) - 1)}

\* the path whose position in the caller's list key k names
TrialOf(k) == GivenTrials[(CHOOSE i \in 0..(Len(GivenTrials) - 1) : k = "other_trial_" \o IntToStr(i)) + 1]

\* the default parameters of the base config given to Rule.sagemaker
Defaults ==
    LET drc == args.base_config.d["DebugRuleConfiguration"].d
    IN  IF "RuleParameters" \in DOMAIN drc THEN drc["RuleParameters"].d ELSE EmptyDict

\* C2: after ProfilerRule.custom succeeds (its rule holds exactly the result
\* of RuleBase._set_rule_parameters), the result is a new mapping whose keys
\* are source_s3_uri (if source given), rule_to_invoke (if given) and the
\* keys of rule_parameters and nothing else; a rule_parameters entry wins
\* over the value from the arguments; the caller's mapping is unchanged.
C2_SharedMerge ==
    Succeeded("ProfilerRule.custom") =>
        /\ Built.rule_parameters # args.rule_parameters
        /\ DOMAIN ParamsOf(Built) = ArgEntries \cup DOMAIN GivenParams
        /\ \A k \in DOMAIN ParamsOf(Built) :
               ParamsOf(Built)[k] = IF k \in DOMAIN GivenParams THEN GivenParams[k] ELSE ArgEntry(k)
        /\ args.rule_parameters # None => heap[args.rule_parameters.id] = GivenParams

\* C2 witness: ProfilerRule.custom succeeded with source and rule_to_invoke
\* given and a rule_parameters entry named rule_to_invoke that overrides.
C2_Witness ==
    /\ Succeeded("ProfilerRule.custom")
    /\ args.source = S("s3://bucket/rules/my_rule.py")
    /\ args.rule_to_invoke = S("MyRule")
    /\ "rule_to_invoke" \in DOMAIN GivenParams
    /\ Get(ParamsOf(Built), "rule_to_invoke", None) = S("x")
    /\ Get(ParamsOf(Built), "source_s3_uri", None) = S("s3://bucket/rules/my_rule.py")

C4_SagemakerMerge ==
    Succeeded("Rule.sagemaker") =>
        /\ DOMAIN ParamsOf(Built) = TrialKeys \cup DOMAIN Defaults \cup DOMAIN GivenParams
        /\ \A k \in DOMAIN ParamsOf(Built) :
               ParamsOf(Built)[k] =
                   IF k \in DOMAIN GivenParams THEN GivenParams[k]
                   ELSE IF k \in DOMAIN Defaults THEN Defaults[k]
                   ELSE TrialOf(k)

\* C4 witness: all three layers are non-empty, and the caller's threshold
\* has replaced the base config's default.
C4_Witness ==
    /\ Succeeded("Rule.sagemaker")
    /\ Len(GivenTrials) = 2
    /\ Get(Defaults, "threshold", None) = S("0.0000001")
    /\ GivenParams = [k \in {"threshold"} |-> I(12)]
    /\ Get(ParamsOf(Built), "threshold", None) = I(12)
    /\ Get(ParamsOf(Built), "rule_to_invoke", None) = S("VanishingGradient")
    /\ Get(ParamsOf(Built), "other_trial_1", None) = S("s3://bucket/trial-14")

\* C5: after Rule.custom succeeds each key of the rule's parameters has the
\* value of the highest layer holding it: the caller's rule_parameters,
\* then source_s3_uri / rule_to_invoke from the arguments, then
\* other_trial_<i>; and there are no other keys.
C5_CustomMerge ==
    Succeeded("Rule.custom") =>
        /\ DOMAIN ParamsOf(Built) = TrialKeys \cup ArgEntries \cup DOMAIN GivenParams
        /\ \A k \in DOMAIN ParamsOf(Built) :
               ParamsOf(Built)[k] =
                   IF k \in DOMAIN GivenParams THEN GivenParams[k]
                   ELSE IF k \in ArgEntries THEN ArgEntry(k)
                   ELSE TrialOf(k)

\* C5 witness: Rule.custom succeeded with a source, a rule to invoke, one
\* other-trial path and the caller's own other_trial_0, which is kept.
C5_Witness ==
    /\ Succeeded("Rule.custom")
    /\ Len(GivenTrials) >= 1
    /\ GivenParams = [k \in {"other_trial_0"} |-> S("x")]
    /\ Get(ParamsOf(Built), "other_trial_0", None) = S("x")
    /\ Get(ParamsOf(Built), "rule_to_invoke", None) = S("MyRule")
    /\ Get(ParamsOf(Built), "source_s3_uri", None) = S("s3://bucket/rules/my_rule.py")

\* the layers above the other-trial keys in the factory last called
UpperKeys ==
    DOMAIN GivenParams \cup (IF last.step = "Rule.sagemaker" THEN DOMAIN Defaults ELSE {})

\* C6 (as stated): after Rule.sagemaker or Rule.custom succeeds, the rule's
\* parameters hold other_trial_i = p_i for every position i of the list,
\* whatever the other arguments are.
C6_AsStated ==
    (Succeeded("Rule.sagemaker") \/ Succeeded("Rule.custom")) =>
        \A i \in 0..(Len(GivenTrials) - 1) :
            /\ ("other_trial_" \o IntToStr(i)) \in DOMAIN ParamsOf(Built)
            /\ ParamsOf(Built)["other_trial_" \o IntToStr(i)] = GivenTrials[i + 1]

\* C6 (amended): after Rule.sagemaker or Rule.custom succeeds, the rule's
\* parameters hold a key other_trial_i for every position i of the list
\* (from 0, no gaps), with value p_i unless the base config's defaults
\* (Rule.sagemaker) or the caller's rule_parameters hold the same key.
C6_OtherTrials ==
    (Succeeded("Rule.sagemaker") \/ Succeeded("Rule.custom")) =>
        \A i \in 0..(Len(GivenTrials) - 1) :
            /\ ("other_trial_" \o IntToStr(i)) \in DOMAIN ParamsOf(Built)
            /\ ("other_trial_" \o IntToStr(i)) \notin UpperKeys
                   => ParamsOf(Built)["other_trial_" \o IntToStr(i)] = GivenTrials[i + 1]

\* C6 witness: two other-trial paths were given to Rule.custom and both
\* are in the rule's parameters under other_trial_0 and other_trial_1.
C6_Witness ==
    /\ Succeeded("Rule.custom")
    /\ GivenTrials = <<S("s3://bucket/trial-7"), S("s3://bucket/trial-14")>>
    /\ Get(ParamsOf(Built), "other_trial_0", None) = S("s3://bucket/trial-7")
    /\ Get(ParamsOf(Built), "other_trial_1", None) = S("s3://bucket/trial-14")


Serializers == {"to_debugger_rule_config_dict", "to_profiler_rule_config_dict"}

\* the rule the last serializer call was made on
Serialized == rules[last.rule]

\* the request key of each optional attribute other than rule_parameters
OptionalKeys(rule) ==
    (IF rule.instance_type # None THEN {"InstanceType"} ELSE {})
        \cup (IF rule.volume_size_in_gb # None THEN {"VolumeSizeInGB"} ELSE {})
        \cup (IF rule.container_local_output_path # None THEN {"LocalPath"} ELSE {})
        \cup (IF rule.s3_output_path # None THEN {"S3OutputPath"} ELSE {})

\* C7 (as stated): a serializer's mapping has RuleConfigurationName and
\* RuleEvaluatorImage, each optional key exactly when its attribute is not
\* None (RuleParameters: when rule_parameters is not None), and no other key.
C7_AsStated ==
    last.step \in Serializers =>
        DOMAIN request.d =
            {"RuleConfigurationName", "RuleEvaluatorImage"}
                \cup OptionalKeys(Serialized)
                \cup (IF Serialized.rule_parameters # None THEN {"RuleParameters"} ELSE {})

\* C7 (amended): as stated, except that to_profiler_rule_config_dict has
\* RuleParameters exactly when rule_parameters is neither None nor an empty
\* mapping; to_debugger_rule_config_dict has it when it is not None.
C7_RequestKeys ==
    last.step \in Serializers =>
        DOMAIN request.d =
            {"RuleConfigurationName", "RuleEvaluatorImage"}
                \cup OptionalKeys(Serialized)
                \cup (IF /\ Serialized.rule_parameters # None
                         /\ (last.step = "to_profiler_rule_config_dict"
                                => DOMAIN last.heap[Serialized.rule_parameters.id] # {})
                      THEN {"RuleParameters"} ELSE {})

\* C7 witness: a custom profiler rule with an instance type, no volume
\* size, a local path, no S3 path and an empty parameter mapping was
\* serialized.
C7_Witness ==
    /\ last.step = "to_profiler_rule_config_dict"
    /\ Serialized.instance_type # None
    /\ Serialized.volume_size_in_gb = None
    /\ Serialized.container_local_output_path # None
    /\ Serialized.s3_output_path = None
    /\ Serialized.rule_parameters # None
    /\ last.heap[Serialized.rule_parameters.id] = EmptyDict
    /\ DOMAIN request.d = {"RuleConfigurationName", "RuleEvaluatorImage", "InstanceType", "LocalPath"}

\* the mapping under RuleParameters of the last request
RequestParams == heap[request.d["RuleParameters"].id]

\* the parameters the serialized rule held when the last step began
ParamsBefore == last.heap[Serialized.rule_parameters.id]

\* the text form of the values the model's parameters take, written out
TextForm(v) ==
    CASE v = None     -> S("None")
      [] v = I(12)    -> S("12")
      [] v = I(70)    -> S("70")
      [] v = B(TRUE)  -> S("True")
      [] OTHER        -> v

\* C8: under RuleParameters, to_profiler_rule_config_dict returns the keys
\* the rule's parameters had, each with the text form of its value (all
\* strings); to_debugger_rule_config_dict returns the rule's parameter
\* mapping with its values as they were.
C8_Coercion ==
    /\ (last.step = "to_profiler_rule_config_dict" /\ "RuleParameters" \in DOMAIN request.d) =>
           /\ DOMAIN RequestParams = DOMAIN ParamsBefore
           /\ \A k \in DOMAIN RequestParams :
                  /\ RequestParams[k].t = "str"
                  /\ RequestParams[k] = TextForm(ParamsBefore[k])
    /\ (last.step = "to_debugger_rule_config_dict" /\ "RuleParameters" \in DOMAIN request.d) =>
           /\ request.d["RuleParameters"] = Serialized.rule_parameters
           /\ RequestParams = ParamsBefore

\* C8 witness: a profiler rule whose cpu_threshold_p95 was the number 70
\* was serialized, and the request holds the string "70".
C8_Witness ==
    /\ last.step = "to_profiler_rule_config_dict"
    /\ Serialized.rule_parameters # None
    /\ Get(ParamsBefore, "cpu_threshold_p95", None) = I(70)
    /\ "RuleParameters" \in DOMAIN request.d
    /\ Get(RequestParams, "cpu_threshold_p95", None) = S("70")

\* the entries of the base config's CollectionConfigurations (none if absent)
BaseEntries ==
    IF "CollectionConfigurations" \in DOMAIN args.base_config.d
    THEN args.base_config.d["CollectionConfigurations"].items
    ELSE <<>>

\* the collection list is one CollectionConfig per base-config entry, in
\* order, with the entry's name (None if missing) and parameters ({} if
\* missing)
DerivedFromBase(list) ==
    /\ list.t = "list"
    /\ Len(list.items) = Len(BaseEntries)
    /\ \A i \in 1..Len(BaseEntries) :
           /\ list.items[i].name =
                  IF "CollectionName" \in DOMAIN BaseEntries[i].d
                  THEN BaseEntries[i].d["CollectionName"] ELSE None
           /\ list.items[i].parameters =
                  IF "CollectionParameters" \in DOMAIN BaseEntries[i].d
                  THEN BaseEntries[i].d["CollectionParameters"] ELSE D(EmptyDict)

\* C9 (as stated): Rule.sagemaker keeps collections_to_save whenever it is
\* given, an empty list included, and otherwise derives the list from the
\* base config.
C9_AsStated ==
    Succeeded("Rule.sagemaker") =>
        IF args.collections_to_save # None
        THEN Built.collection_configs = args.collections_to_save
        ELSE DerivedFromBase(Built.collection_configs)

\* C9 (amended): Rule.sagemaker keeps collections_to_save whenever it is
\* given and not empty; when it is None or an empty list the list is
\* derived from the base config's CollectionConfigurations.
C9_Collections ==
    Succeeded("Rule.sagemaker") =>
        IF args.collections_to_save # None /\ args.collections_to_save # L(<<>>)
        THEN Built.collection_configs = args.collections_to_save
        ELSE DerivedFromBase(Built.collection_configs)

\* C9 witness: no collections were given and the base config has one entry
\* without a name and one without parameters; the rule holds both.
C9_Witness ==
    /\ Succeeded("Rule.sagemaker")
    /\ args.collections_to_save = None
    /\ Built.collection_configs =
           L(<<CollectionConfig(S("losses"), D(EmptyDict)),
               CollectionConfig(None, D([p \in {"include_regex"} |-> S(".*")]))>>)

SagemakerOps == {"Rule.sagemaker", "ProfilerRule.sagemaker"}

\* the rule name of the base config given to a sagemaker factory
BaseName ==
    IF args.op = "ProfilerRule.sagemaker"
    THEN args.base_config.rule_name
    ELSE IF "RuleConfigurationName" \in DOMAIN args.base_config.d["DebugRuleConfiguration"].d
         THEN args.base_config.d["DebugRuleConfiguration"].d["RuleConfigurationName"]
         ELSE None

\* what C10 says of a built-in rule apart from its name, and of the
\* request a serializer makes of it
BuiltInShape ==
    /\ \A i \in 1..Len(rules) :
           /\ rules[i].image_uri = S("DEFAULT_RULE_EVALUATOR_IMAGE")
           /\ rules[i].instance_type = None
           /\ rules[i].volume_size_in_gb = None
    /\ last.step \in Serializers =>
           /\ "InstanceType" \notin DOMAIN request.d
           /\ "VolumeSizeInGB" \notin DOMAIN request.d
           /\ request.d["RuleEvaluatorImage"] = S("DEFAULT_RULE_EVALUATOR_IMAGE")

\* C10 (as stated): a rule built by Rule.sagemaker or ProfilerRule.sagemaker
\* has the sentinel image, no instance type, no volume size, and the
\* caller's name if one is given (not None), else the base config's name;
\* its request has no InstanceType or VolumeSizeInGB and the sentinel image.
C10_AsStated ==
    args.op \in SagemakerOps =>
        /\ BuiltInShape
        /\ \A i \in 1..Len(rules) :
               rules[i].name = IF args.name # None THEN args.name ELSE BaseName

\* C10 (amended): as stated, with the caller's name used if it is given and
\* not empty; for None or the empty string the base config's name is used.
C10_BuiltInRule ==
    args.op \in SagemakerOps =>
        /\ BuiltInShape
        /\ \A i \in 1..Len(rules) :
               rules[i].name = IF NonEmpty(args.name) THEN args.name ELSE BaseName

\* C10 witness: Rule.sagemaker was called without a name, the rule took the
\* base config's name, and it has been serialized.
C10_Witness ==
    /\ args.op = "Rule.sagemaker"
    /\ args.name = None
    /\ last.step = "to_debugger_rule_config_dict"
    /\ Serialized.name = S("VanishingGradient")
    /\ request.d["RuleConfigurationName"] = S("VanishingGradient")
    /\ request.d["RuleEvaluatorImage"] = S("DEFAULT_RULE_EVALUATOR_IMAGE")

---------------------------------------------------------------------------
(* Value objects of sagemaker.debugger: CollectionConfig,                  *)
(* DebuggerHookConfig and TensorBoardOutputConfig                          *)

MaxItems == 2      \* most entries in a parameters mapping of a value object

\* a dict with its insertion order: a sequence of <<key, value>> items
\* with distinct keys
OD(items) == [t |-> "odict", items |-> items]

\* the items of a dict, without their order
Items(d) == {d.items[i] : i \in 1..Len(d.items)}

\* x == y for names and parameters: two dicts are equal when they hold the
\* same items, whatever the order of insertion
PyEq(x, y) == IF x.t = "odict" /\ y.t = "odict" THEN Items(x) = Items(y) ELSE x = y

\* the value a reference or a plain value stands for
Deref(h, v) == IF v.t = "ref" THEN h[v.id] ELSE v

\* the parameter names of the model, in the order of str.__lt__
SortedKeys == <<"include_regex", "save_interval", "save_steps">>

RECURSIVE SortedFrom(_, _)
\* the items whose key is SortedKeys[i] or a later one, in key order
SortedFrom(items, i) ==
    IF i > Len(SortedKeys) THEN <<>>
    ELSE SelectSeq(items, LAMBDA it : it[1] = SortedKeys[i]) \o SortedFrom(items, i + 1)

\* sorted(d.items()): keys are distinct, so the order is that of the keys
sorted(items) == SortedFrom(items, 1)

\* (parameters or {}).items()
ParametersOrEmpty(parameters) ==
    IF parameters.t = "odict" /\ parameters.items # <<>> THEN parameters.items ELSE <<>>

\* isinstance(other, CollectionConfig)
IsCollectionConfig(other) == other.t = "CollectionConfig"

\* CollectionConfig.__eq__
CollectionConfig_eq(h, self, other) ==
    IF ~IsCollectionConfig(other) THEN Raise("TypeError", h)
    ELSE Return(h, B(PyEq(self.name, other.name) /\ PyEq(self.parameters, other.parameters)))

\* mutant: the two comparisons are joined by `and`
CollectionConfig_ne_And(h, self, other) ==
    IF ~IsCollectionConfig(other) THEN Raise("TypeError", h)
    ELSE Return(h, B(~PyEq(self.name, other.name) /\ ~PyEq(self.parameters, other.parameters)))

\* CollectionConfig.__ne__
CollectionConfig_ne(h, self, other) ==
    IF ~IsCollectionConfig(other) THEN Raise("TypeError", h)
    ELSE Return(h, B(~PyEq(self.name, other.name) \/ ~PyEq(self.parameters, other.parameters)))

\* mutant: the items are hashed in insertion order
CollectionConfig_hash_Unsorted(h, self) ==
    Return(h, <<self.name, ParametersOrEmpty(self.parameters)>>)

\* CollectionConfig.__hash__: the hash is modelled by the tuple it is
\* taken of, equal tuples having equal hashes
CollectionConfig_hash(h, self) ==
    Return(h, <<self.name, sorted(ParametersOrEmpty(self.parameters))>>)

\* CollectionConfig._to_request_dict
CollectionConfig_to_request_dict(h, self) ==
    LET collection_config_request == [k \in {"CollectionName"} |-> self.name]
    IN Return(h, IF self.parameters # None
                 THEN Update(collection_config_request, [k \in {"CollectionParameters"} |-> self.parameters])
                 ELSE collection_config_request)

\* DebuggerHookConfig.__init__
DebuggerHookConfig(s3_output_path, container_local_output_path, hook_parameters, collection_configs) ==
    [t |-> "DebuggerHookConfig",
     s3_output_path |-> s3_output_path,
     container_local_output_path |-> container_local_output_path,
     hook_parameters |-> hook_parameters,
     collection_configs |-> collection_configs]

\* mutant: an empty hook_parameters mapping is left out
DebuggerHookConfig_to_request_dict_Truthy(h, self) ==
    LET head == [k \in {"S3OutputPath"} |-> self.s3_output_path]
        local == IF self.container_local_output_path # None
                 THEN Update(head, [k \in {"LocalPath"} |-> self.container_local_output_path])
                 ELSE head
        hook == IF self.hook_parameters # None /\ self.hook_parameters.items # <<>>
                THEN Update(local, [k \in {"HookParameters"} |-> self.hook_parameters])
                ELSE local
    IN Return(h, IF self.collection_configs # None
                 THEN Update(hook, [k \in {"CollectionConfigurations"} |->
                        L([i \in 1..Len(self.collection_configs.items) |->
                            D(CollectionConfig_to_request_dict(h, self.collection_configs.items[i]).result)])])
                 ELSE hook)

\* DebuggerHookConfig._to_request_dict
DebuggerHookConfig_to_request_dict(h, self) ==
    LET head == [k \in {"S3OutputPath"} |-> self.s3_output_path]
        local == IF self.container_local_output_path # None
                 THEN Update(head, [k \in {"LocalPath"} |-> self.container_local_output_path])
                 ELSE head
        hook == IF self.hook_parameters # None
                THEN Update(local, [k \in {"HookParameters"} |-> self.hook_parameters])
                ELSE local
    IN Return(h, IF self.collection_configs # None
                 THEN Update(hook, [k \in {"CollectionConfigurations"} |->
                        L([i \in 1..Len(self.collection_configs.items) |->
                            D(CollectionConfig_to_request_dict(h, self.collection_configs.items[i]).result)])])
                 ELSE hook)

\* TensorBoardOutputConfig.__init__
TensorBoardOutputConfig(s3_output_path, container_local_output_path) ==
    [t |-> "TensorBoardOutputConfig",
     s3_output_path |-> s3_output_path,
     container_local_output_path |-> container_local_output_path]

\* TensorBoardOutputConfig._to_request_dict
TensorBoardOutputConfig_to_request_dict(h, self) ==
    LET tensorboard_output_config_request == [k \in {"S3OutputPath"} |-> self.s3_output_path]
    IN Return(h, IF self.container_local_output_path # None
                 THEN Update(tensorboard_output_config_request, [k \in {"LocalPath"} |-> self.container_local_output_path])
                 ELSE tensorboard_output_config_request)

---------------------------------------------------------------------------
(* The value objects a caller may hold *)

ParamNames == {SortedKeys[i] : i \in 1..Len(SortedKeys)}
ParamTexts == {S("10"), S(".*")}

\* the sequences of at most MaxItems items with distinct keys: every
\* mapping in every order of insertion
ItemLists ==
    UNION {{q \in [1..n -> ParamNames \X ParamTexts] :
                \A i, j \in 1..n : q[i][1] = q[j][1] => i = j} : n \in 0..MaxItems}

ParameterMappings == {OD(q) : q \in ItemLists}

ConfigNames == {None, S("weights")}

CollectionConfigs ==
    {CollectionConfig(n, p) : n \in ConfigNames, p \in {None} \cup ParameterMappings}

\* what a CollectionConfig may be compared with that is not one
NonConfigs == {None, S("weights"), OD(<<>>)}

HookParameterMappings == {None, OD(<<>>), OD(<< <<"save_interval", S("10")>> >>)}

HookCollectionLists ==
    {None,
     L(<<>>),
     L(<<CollectionConfig(S("weights"), None)>>),
     L(<<CollectionConfig(S("losses"), OD(<< <<"save_steps", S("10")>> >>)), CollectionConfig(None, OD(<<>>))>>)}

DebuggerHookConfigs ==
    {DebuggerHookConfig(s, l, p, c) : s \in S3Paths, l \in LocalPaths, p \in HookParameterMappings, c \in HookCollectionLists}

TensorBoardOutputConfigs == {TensorBoardOutputConfig(s, l) : s \in S3Paths, l \in LocalPaths}

\* a value returned by a call, or the error it raised
Raised(err) == [t |-> "raised", err |-> err]

\* the calls so far, with the value of one more
Record(f, label, v) == [k \in (DOMAIN f) \cup {label} |-> IF k = label THEN v ELSE f[k]]

ConfigInit ==
    /\ \/ /\ args = [op |-> "compare", self |-> Ref(1), other |-> Ref(2)]
          /\ heap \in {<<a, b>> : a \in CollectionConfigs, b \in CollectionConfigs}
       \/ /\ args \in {[op |-> "compare", self |-> Ref(1), other |-> v] : v \in NonConfigs}
          /\ heap \in {<<a>> : a \in CollectionConfigs}
       \/ /\ args = [op |-> "_to_request_dict", self |-> Ref(1)]
          /\ heap \in {<<a>> : a \in CollectionConfigs \cup DebuggerHookConfigs \cup TensorBoardOutputConfigs}
    /\ rules = <<>>
    /\ outcome = "none"
    /\ request = None
    /\ last = NoStep
    /\ returned = <<>>
    /\ calls = <<>>

\* a call on the caller's objects whose value, or error, the caller keeps
Call(label, res) ==
    /\ heap' = res.heap
    /\ returned' = Record(returned, label, IF res.raised = "" THEN res.result ELSE Raised(res.raised))
    /\ outcome' = IF res.raised = "" THEN "ok" ELSE res.raised
    /\ last' = [step |-> label, rule |-> 0, heap |-> heap]
    /\ UNCHANGED <<args, rules, request, calls>>

\* self == other
CollectionConfigEq ==
    /\ args.op = "compare"
    /\ Call("__eq__", CollectionConfig_eq(heap, Deref(heap, args.self), Deref(heap, args.other)))

\* self != other
CollectionConfigNe ==
    /\ args.op = "compare"
    /\ Call("__ne__", CollectionConfig_ne(heap, Deref(heap, args.self), Deref(heap, args.other)))

\* hash(self), hash(other)
CollectionConfigHash ==
    /\ args.op = "compare"
    /\ \/ Call("hash(self)", CollectionConfig_hash(heap, Deref(heap, args.self)))
       \/ /\ IsCollectionConfig(Deref(heap, args.other))
          /\ Call("hash(other)", CollectionConfig_hash(heap, Deref(heap, args.other)))

\* self._to_request_dict() of a value object of class cls
ToRequestDict(cls, res) ==
    /\ args.op = "_to_request_dict"
    /\ Deref(heap, args.self).t = cls
    /\ heap' = res.heap
    /\ request' = D(res.result)
    /\ outcome' = "ok"
    /\ last' = [step |-> "_to_request_dict", rule |-> 0, heap |-> heap]
    /\ UNCHANGED <<args, rules, returned, calls>>

CollectionConfigToRequestDict ==
    ToRequestDict("CollectionConfig", CollectionConfig_to_request_dict(heap, Deref(heap, args.self)))

DebuggerHookConfigToRequestDict ==
    ToRequestDict("DebuggerHookConfig", DebuggerHookConfig_to_request_dict(heap, Deref(heap, args.self)))

TensorBoardOutputConfigToRequestDict ==
    ToRequestDict("TensorBoardOutputConfig", TensorBoardOutputConfig_to_request_dict(heap, Deref(heap, args.self)))

ConfigNext ==
    \/ CollectionConfigEq
    \/ CollectionConfigNe
    \/ CollectionConfigHash
    \/ CollectionConfigToRequestDict
    \/ DebuggerHookConfigToRequestDict
    \/ TensorBoardOutputConfigToRequestDict

ConfigSpec == ConfigInit /\ [][ConfigNext]_vars

---------------------------------------------------------------------------
(* Vocabulary of the properties of the value objects *)

\* the call named label has been made and has returned v
Gave(label, v) == label \in DOMAIN returned /\ returned[label] = v

\* the call named label has been made
Made(label) == label \in DOMAIN returned

\* the two operands of a comparison are CollectionConfig objects
BothConfigs == args.op = "compare" /\ args.other.t = "ref"

\* a parameters attribute as the mapping it denotes
AsMapping(p) ==
    IF p.t = "odict" THEN [k \in {p.items[i][1] : i \in 1..Len(p.items)} |->
                              (CHOOSE it \in Items(p) : it[1] = k)[2]]
                     ELSE p

\* the two operands have equal names and equal parameters
SameConfig == heap[1].name = heap[2].name /\ AsMapping(heap[1].parameters) = AsMapping(heap[2].parameters)

\* C11: two CollectionConfig objects compare equal exactly when their
\* names are equal and their parameters are equal as mappings, whatever
\* the order of insertion; and two objects that compare equal have equal
\* hashes.
C11_EqAndHash ==
    BothConfigs =>
        /\ Made("__eq__") => returned["__eq__"] = B(SameConfig)
        /\ (Gave("__eq__", B(TRUE)) /\ Made("hash(self)") /\ Made("hash(other)"))
               => returned["hash(self)"] = returned["hash(other)"]

\* C11 witness: two objects whose parameters were inserted in different
\* orders have compared equal and have both been hashed
C11_Witness ==
    /\ BothConfigs
    /\ Gave("__eq__", B(TRUE))
    /\ Made("hash(self)") /\ Made("hash(other)")
    /\ heap[1].parameters.t = "odict"
    /\ Len(heap[1].parameters.items) = 2
    /\ heap[1].parameters # heap[2].parameters

\* the two comparison calls
Comparisons == {"__eq__", "__ne__"}

\* C12: comparing a CollectionConfig with an object that is not a
\* CollectionConfig raises TypeError, for == and for !=; comparing two
\* CollectionConfig objects never raises, and != returns the negation of
\* what == returns.
C12_Comparison ==
    args.op = "compare" =>
        /\ ~BothConfigs => \A c \in Comparisons : Made(c) => returned[c] = Raised("TypeError")
        /\ BothConfigs =>
              /\ \A c \in Comparisons : Made(c) => returned[c].t = "bool"
              /\ (Made("__eq__") /\ Made("__ne__")) => returned["__ne__"] = B(~returned["__eq__"].b)

\* C12 witness: two objects with one name and different parameters have
\* been compared both ways: == gave False and != gave True
C12_Witness ==
    /\ BothConfigs
    /\ heap[1].name = heap[2].name
    /\ Gave("__eq__", B(FALSE))
    /\ Gave("__ne__", B(TRUE))

\* the attribute each key of a request mapping carries, by class
RequestKeys(cls) ==
    CASE cls = "DebuggerHookConfig" ->
            [k \in {"S3OutputPath", "LocalPath", "HookParameters", "CollectionConfigurations"} |->
                CASE k = "S3OutputPath" -> "s3_output_path"
                  [] k = "LocalPath" -> "container_local_output_path"
                  [] k = "HookParameters" -> "hook_parameters"
                  [] k = "CollectionConfigurations" -> "collection_configs"]
      [] cls = "TensorBoardOutputConfig" ->
            [k \in {"S3OutputPath", "LocalPath"} |->
                IF k = "S3OutputPath" THEN "s3_output_path" ELSE "container_local_output_path"]
      [] cls = "CollectionConfig" ->
            [k \in {"CollectionName", "CollectionParameters"} |->
                IF k = "CollectionName" THEN "name" ELSE "parameters"]

\* the keys the serializers write unconditionally
AlwaysKeys == {"S3OutputPath", "CollectionName"}

\* a value object has just been serialized into `request`
Requested == args.op = "_to_request_dict" /\ last.step = "_to_request_dict"

\* the pairs <<object, mapping>> of the last serialization: the object
\* itself and, for a DebuggerHookConfig, each of its collection configs
RequestPairs ==
    {<<heap[1], request.d>>} \cup
    (IF heap[1].t = "DebuggerHookConfig" /\ heap[1].collection_configs # None
        /\ "CollectionConfigurations" \in DOMAIN request.d
     THEN {<<heap[1].collection_configs.items[i], request.d["CollectionConfigurations"].items[i].d>> :
              i \in 1..Len(heap[1].collection_configs.items)}
     ELSE {})

\* C13 (as stated): each of the six keys is in the mapping exactly when
\* the attribute it carries is not absent.
C13_AsStated ==
    Requested =>
        \A p \in RequestPairs : \A k \in DOMAIN RequestKeys(p[1].t) :
            k \in DOMAIN p[2] <=> p[1][RequestKeys(p[1].t)[k]] # None

\* C13 (amended): LocalPath, HookParameters, CollectionConfigurations and
\* CollectionParameters are in the mapping exactly when the attribute is
\* not absent, an empty mapping or list counting as present; S3OutputPath
\* and CollectionName are always in the mapping and carry the attribute,
\* absent or not; and the mapping has no other key.
C13_RequestDict ==
    Requested =>
        \A p \in RequestPairs :
            /\ DOMAIN p[2] \subseteq DOMAIN RequestKeys(p[1].t)
            /\ \A k \in DOMAIN RequestKeys(p[1].t) :
                  IF k \in AlwaysKeys
                  THEN k \in DOMAIN p[2] /\ p[2][k] = p[1][RequestKeys(p[1].t)[k]]
                  ELSE k \in DOMAIN p[2] <=> p[1][RequestKeys(p[1].t)[k]] # None

\* C13 witness: a DebuggerHookConfig with no s3_output_path, an empty
\* hook_parameters mapping and an empty collection_configs list has been
\* serialized: the mapping holds S3OutputPath, HookParameters and
\* CollectionConfigurations and no LocalPath
C13_Witness ==
    /\ Requested
    /\ heap[1] = DebuggerHookConfig(None, None, OD(<<>>), L(<<>>))
    /\ DOMAIN request.d = {"S3OutputPath", "HookParameters", "CollectionConfigurations"}

---------------------------------------------------------------------------
(* Data holders of sagemaker.jumpstart.types *)

MaxFromJson == 2   \* most from_json calls made on a holder after its construction

\* an instance of a holder class: its class and the attributes set on it
Holder(type, attrs) == [t |-> "holder", type |-> type, attrs |-> attrs]

\* a set value, as JumpStartECRSpecs.__slots__ is
SetOf(elems) == [t |-> "set", elems |-> elems]

\* the class a subclass is derived from; "VersionedModelIdSubtype" and
\* "VersionedModelIdNoSlots" stand for subclasses of
\* JumpStartVersionedModelId that declare no attribute: the first has no
\* __slots__ of its own, the second declares __slots__ = []
Parent(type) ==
    CASE type \in {"VersionedModelIdSubtype", "VersionedModelIdNoSlots"} -> "JumpStartVersionedModelId"
      [] type = "JumpStartDataHolderType" -> "object"
      [] OTHER -> "JumpStartDataHolderType"

\* <obj>.__slots__: the __slots__ of the class, or of the nearest base
\* class that has one
Slots(type) ==
    CASE type = "JumpStartLaunchedRegionInfo" -> L(<<"content_bucket", "region_name">>)
      [] type = "JumpStartModelHeader" -> L(<<"model_id", "version", "min_version", "spec_key">>)
      [] type = "JumpStartECRSpecs" -> SetOf({"framework", "framework_version", "py_version"})
      [] type = "JumpStartModelSpecs" ->
            L(<<"model_id", "version", "min_sdk_version", "incremental_training_supported",
                "hosting_ecr_specs", "hosting_artifact_key", "hosting_script_key",
                "training_supported", "training_ecr_specs", "training_artifact_key",
                "training_script_key", "hyperparameters">>)
      [] type \in {"JumpStartVersionedModelId", "VersionedModelIdSubtype"} -> L(<<"model_id", "version">>)
      [] type = "JumpStartCachedS3ContentKey" -> L(<<"file_type", "s3_key">>)
      [] OTHER -> L(<<>>)

\* the names `for attribute in self.__slots__` runs over
SlotNames(type) ==
    LET slots == Slots(type)
    IN IF slots.t = "set" THEN slots.elems ELSE {slots.items[i] : i \in 1..Len(slots.items)}

\* isinstance(obj, type) for a holder class `type`
isinstance(obj, type) ==
    /\ obj.t = "holder"
    /\ \/ obj.type = type
       \/ Parent(obj.type) = type
       \/ Parent(Parent(obj.type)) = type

RECURSIVE JumpStartDataHolderType_eq(_, _)
\* JumpStartDataHolderType.__eq__; an attribute that is itself a holder
\* is compared by the same method
JumpStartDataHolderType_eq(self, other) ==
    IF ~isinstance(other, self.type) THEN FALSE
    ELSE IF Slots(other.type) = None THEN FALSE
    ELSE IF Slots(self.type) # Slots(other.type) THEN FALSE
    ELSE \A attribute \in SlotNames(self.type) :
            LET a == self.attrs[attribute]
                b == other.attrs[attribute]
            IN IF a.t = "holder" THEN JumpStartDataHolderType_eq(a, b) ELSE a = b

\* the order in which `for att in self.__slots__` visits the names: that
\* of the list, or, for a set, one fixed order of its elements
SlotOrder(type) ==
    LET slots == Slots(type)
    IN IF slots.t = "set"
       THEN CHOOSE q \in [1..Cardinality(slots.elems) -> slots.elems] :
                \A e \in slots.elems : \E i \in DOMAIN q : q[i] = e
       ELSE slots.items

\* a hash value, modelled by the tuple it is taken of: equal tuples have
\* equal hashes
Hash(tuple) == [t |-> "hash", of |-> tuple]

\* hash() is defined for the value: dicts, lists and sets are unhashable
Hashable(v) == v.t \notin {"dict", "odict", "list", "set"}

RECURSIVE JumpStartDataHolderType_hash(_)
\* JumpStartDataHolderType.__hash__: hash((type(self),) + tuple of the
\* attribute values); an attribute that is a holder contributes its own
\* hash, an unhashable attribute makes hash() raise TypeError
JumpStartDataHolderType_hash(self) ==
    LET order == SlotOrder(self.type)
        values == [i \in 1..Len(order) |->
                      LET v == self.attrs[order[i]]
                      IN IF v.t = "holder" THEN JumpStartDataHolderType_hash(v)
                         ELSE IF Hashable(v) THEN v
                         ELSE Raised("TypeError")]
    IN IF \E i \in 1..Len(order) : values[i].t = "raised" THEN Raised("TypeError")
       ELSE Hash(<<self.type>> \o values)

\* the state of a holder during from_json: the attributes set so far and
\* the error raised, if any
Set(attrs) == [attrs |-> attrs, raised |-> ""]
Fail(attrs, err) == [attrs |-> attrs, raised |-> err]

\* mutant: nothing is assigned unless every key is there
AssignFrom_AllOrNothing(attrs, json_obj, atts) ==
    IF \E i \in 1..Len(atts) : atts[i] \notin DOMAIN json_obj THEN Fail(attrs, "KeyError")
    ELSE Set(Update(attrs, [k \in {atts[i] : i \in 1..Len(atts)} |-> json_obj[k]]))

RECURSIVE AssignFrom(_, _, _)
\* self.<att> = json_obj[<att>] for each att of atts in turn; the first
\* key that is missing raises KeyError and ends the run
AssignFrom(attrs, json_obj, atts) ==
    IF atts = <<>> THEN Set(attrs)
    ELSE IF Head(atts) \notin DOMAIN json_obj THEN Fail(attrs, "KeyError")
    ELSE AssignFrom(Record(attrs, Head(atts), json_obj[Head(atts)]), json_obj, Tail(atts))

\* mutant: version is read from min_version
JumpStartModelHeader_from_json_MinVersion(attrs, json_obj) ==
    LET s == AssignFrom(attrs, json_obj, <<"model_id", "min_version", "spec_key">>)
    IN IF s.raised # "" THEN s ELSE Set(Record(s.attrs, "version", json_obj["min_version"]))

\* JumpStartModelHeader.from_json
JumpStartModelHeader_from_json(attrs, json_obj) ==
    AssignFrom(attrs, json_obj, <<"model_id", "version", "min_version", "spec_key">>)

\* JumpStartECRSpecs.from_json
JumpStartECRSpecs_from_json(attrs, json_obj) ==
    AssignFrom(attrs, json_obj, <<"framework", "framework_version", "py_version">>)

\* self.<att> = JumpStartECRSpecs(json_obj[<att>]): the key may be
\* missing, the value may not be a mapping, and the nested from_json may
\* fail
AssignECRSpecs(attrs, json_obj, att) ==
    IF att \notin DOMAIN json_obj THEN Fail(attrs, "KeyError")
    ELSE IF json_obj[att].t # "dict" THEN Fail(attrs, "TypeError")
    ELSE LET spec == JumpStartECRSpecs_from_json(<<>>, json_obj[att].d)
         IN IF spec.raised # "" THEN Fail(attrs, spec.raised)
            ELSE Set(Record(attrs, att, Holder("JumpStartECRSpecs", spec.attrs)))

\* self.<att> = bool(json_obj[<att>])
AssignBool(attrs, json_obj, att) ==
    IF att \notin DOMAIN json_obj THEN Fail(attrs, "KeyError")
    ELSE Set(Record(attrs, att, B(Truthy(json_obj[att]))))

\* mutant: hyperparameters is read like the other training keys
Trainable_HyperparametersRequired(attrs, json_obj) ==
    LET s1 == AssignECRSpecs(attrs, json_obj, "training_ecr_specs")
    IN IF s1.raised # "" THEN s1
       ELSE AssignFrom(s1.attrs, json_obj, <<"training_artifact_key", "training_script_key", "hyperparameters">>)

\* the branch of JumpStartModelSpecs.from_json taken when
\* training_supported is true
Trainable(attrs, json_obj) ==
    LET s1 == AssignECRSpecs(attrs, json_obj, "training_ecr_specs")
        s2 == IF s1.raised # "" THEN s1
              ELSE AssignFrom(s1.attrs, json_obj, <<"training_artifact_key", "training_script_key">>)
    IN IF s2.raised # "" THEN s2
       ELSE Set(Record(s2.attrs, "hyperparameters", Get(json_obj, "hyperparameters", None)))

\* mutant: hyperparameters is left as it was
NotTrainable_KeepHyperparameters(attrs) ==
    Set(Update(attrs, [k \in {"training_ecr_specs", "training_artifact_key", "training_script_key"} |-> None]))

\* the branch taken when training_supported is false
NotTrainable(attrs) ==
    Set(Update(attrs, [k \in {"training_ecr_specs", "training_artifact_key",
                              "training_script_key", "hyperparameters"} |-> None]))

\* JumpStartModelSpecs.from_json
JumpStartModelSpecs_from_json(attrs, json_obj) ==
    LET s1 == AssignFrom(attrs, json_obj, <<"model_id", "version", "min_sdk_version">>)
        s2 == IF s1.raised # "" THEN s1 ELSE AssignBool(s1.attrs, json_obj, "incremental_training_supported")
        s3 == IF s2.raised # "" THEN s2 ELSE AssignECRSpecs(s2.attrs, json_obj, "hosting_ecr_specs")
        s4 == IF s3.raised # "" THEN s3
              ELSE AssignFrom(s3.attrs, json_obj, <<"hosting_artifact_key", "hosting_script_key">>)
        s5 == IF s4.raised # "" THEN s4 ELSE AssignBool(s4.attrs, json_obj, "training_supported")
    IN IF s5.raised # "" THEN s5
       ELSE IF s5.attrs["training_supported"].b THEN Trainable(s5.attrs, json_obj)
       ELSE NotTrainable(s5.attrs)

\* <type>.from_json for the three classes built from JSON
from_json(type, attrs, json_obj) ==
    CASE type = "JumpStartModelHeader" -> JumpStartModelHeader_from_json(attrs, json_obj)
      [] type = "JumpStartECRSpecs" -> JumpStartECRSpecs_from_json(attrs, json_obj)
      [] type = "JumpStartModelSpecs" -> JumpStartModelSpecs_from_json(attrs, json_obj)

\* {att: getattr(self, att) for att in self.__slots__}: to_json of
\* JumpStartModelHeader and JumpStartECRSpecs
SlotsToJson(self) == [att \in SlotNames(self.type) |-> self.attrs[att]]

\* mutant: nested specs are copied as they are
JumpStartModelSpecs_to_json_Plain(self) ==
    [att \in SlotNames(self.type) |-> self.attrs[att]]

\* JumpStartModelSpecs.to_json
JumpStartModelSpecs_to_json(self) ==
    [att \in SlotNames(self.type) |->
        LET cur_val == self.attrs[att]
        IN IF isinstance(cur_val, "JumpStartECRSpecs") THEN D(SlotsToJson(cur_val)) ELSE cur_val]

\* <type>.to_json
to_json(self) ==
    IF self.type = "JumpStartModelSpecs" THEN JumpStartModelSpecs_to_json(self) ELSE SlotsToJson(self)

\* the constructors that take their attributes as arguments
JumpStartLaunchedRegionInfo(content_bucket, region_name) ==
    Holder("JumpStartLaunchedRegionInfo", [k \in {"content_bucket", "region_name"} |->
        IF k = "content_bucket" THEN content_bucket ELSE region_name])

JumpStartVersionedModelId(type, model_id, version) ==
    Holder(type, [k \in {"model_id", "version"} |-> IF k = "model_id" THEN model_id ELSE version])

JumpStartCachedS3ContentKey(file_type, s3_key) ==
    Holder("JumpStartCachedS3ContentKey", [k \in {"file_type", "s3_key"} |->
        IF k = "file_type" THEN file_type ELSE s3_key])

---------------------------------------------------------------------------
(* The JSON mappings and holders a caller may have *)

Variants == {"a", "b"}

JsonTypes == {"JumpStartModelHeader", "JumpStartECRSpecs", "JumpStartModelSpecs"}

\* a mapping without the keys ks
Without(json_obj, ks) == [k \in (DOMAIN json_obj) \ ks |-> json_obj[k]]

\* a mapping with one key no holder reads
WithExtra(json_obj) == Update(json_obj, [k \in {"url"} |-> S("url")])

HeaderJson(v) == [k \in SlotNames("JumpStartModelHeader") |-> S(k \o "-" \o v)]

ECRJson(v) == [k \in SlotNames("JumpStartECRSpecs") |-> S(k \o "-" \o v)]

SpecsJson(v, training_supported) ==
    [k \in SlotNames("JumpStartModelSpecs") |->
        CASE k = "incremental_training_supported" -> B(v = "a")
          [] k = "training_supported" -> B(training_supported)
          [] k \in {"hosting_ecr_specs", "training_ecr_specs"} -> D(ECRJson(v))
          [] k = "hyperparameters" -> D([p \in {"epochs"} |-> S("epochs-" \o v)])
          [] OTHER -> S(k \o "-" \o v)]

TrainingKeys == {"training_ecr_specs", "training_artifact_key", "training_script_key", "hyperparameters"}

\* the sets of keys a mapping may lack: none, any one key, or, for a
\* model that cannot be trained, every training key
Lacking(type) ==
    {{}} \cup {{k} : k \in SlotNames(type)} \cup
    (IF type = "JumpStartModelSpecs" THEN {TrainingKeys} ELSE {})

\* a specs mapping whose nested ECR mapping att lacks its framework
NestedLacking(json_obj, att) ==
    [json_obj EXCEPT ![att] = D(Without(@.d, {"framework"}))]

Jsons(type) ==
    CASE type = "JumpStartModelHeader" ->
            {Without(j, ks) : j \in {HeaderJson(v) : v \in Variants} \cup {WithExtra(HeaderJson(v)) : v \in Variants},
                              ks \in Lacking(type)}
      [] type = "JumpStartECRSpecs" ->
            {Without(j, ks) : j \in {ECRJson(v) : v \in Variants} \cup {WithExtra(ECRJson(v)) : v \in Variants},
                              ks \in Lacking(type)}
      [] type = "JumpStartModelSpecs" ->
            LET full == {SpecsJson(v, ts) : v \in Variants, ts \in BOOLEAN}
            IN {Without(j, ks) : j \in full, ks \in Lacking(type)} \cup
               {NestedLacking(j, att) : j \in full, att \in {"hosting_ecr_specs", "training_ecr_specs"}}

ModelIds == {S("pytorch-ic-mobilenet-v2"), S("tensorflow-ic-bit")}
Versions == {S("1.0.0"), S("*")}

\* instances of the classes of the module
SourceHolders ==
    {JumpStartVersionedModelId("JumpStartVersionedModelId", m, v) : m \in ModelIds, v \in Versions} \cup
    {JumpStartLaunchedRegionInfo(S("jumpstart-cache-prod"), r) : r \in {S("us-west-2"), S("eu-west-1")}} \cup
    {JumpStartCachedS3ContentKey(f, S("models_manifest.json")) : f \in {S("manifest"), S("specs")}} \cup
    {Holder("JumpStartModelHeader", HeaderJson(v)) : v \in Variants} \cup
    {Holder("JumpStartECRSpecs", ECRJson(v)) : v \in Variants}

\* instances of subclasses that declare no attribute
SubtypeHolders ==
    {JumpStartVersionedModelId(t, m, v) :
        t \in {"VersionedModelIdSubtype", "VersionedModelIdNoSlots"}, m \in ModelIds, v \in Versions}

\* what a holder may be compared with that is not a holder
NonHolders == {None, D(HeaderJson("a"))}

\* no call made yet; `json` is the mapping last given to the first holder
\* and `n` the number of from_json calls made on it
NoCall == [step |-> "none", json |-> None, heap |-> <<>>, n |-> 0]

HolderInit ==
    /\ \/ /\ args \in {[op |-> t, self |-> Ref(1), other |-> Ref(2)] : t \in JsonTypes}
          /\ heap = <<>>
       \/ /\ args = [op |-> "compare", self |-> Ref(1), other |-> Ref(2)]
          /\ heap \in {<<x, y>> : x \in SourceHolders, y \in SourceHolders \cup SubtypeHolders}
       \/ /\ args \in {[op |-> "compare", self |-> Ref(1), other |-> v] : v \in NonHolders}
          /\ heap \in {<<x>> : x \in SourceHolders}
    /\ rules = <<>>
    /\ outcome = "none"
    /\ request = None
    /\ last = NoCall
    /\ returned = <<>>
    /\ calls = <<>>

\* <type>(json_obj): the constructor runs from_json on a new object; the
\* caller gets the object only if from_json returns
NewHolder(type, json_obj) ==
    /\ args.op = type
    /\ heap = <<>>
    /\ outcome = "none"
    /\ LET s == from_json(type, <<>>, json_obj)
       IN /\ heap' = IF s.raised = "" THEN <<Holder(type, s.attrs)>> ELSE heap
          /\ outcome' = IF s.raised = "" THEN "ok" ELSE s.raised
          /\ returned' = Record(returned, "__init__", IF s.raised = "" THEN Ref(1) ELSE Raised(s.raised))
    /\ last' = [step |-> "__init__", json |-> D(json_obj), heap |-> heap, n |-> 0]
    /\ UNCHANGED <<args, rules, request, calls>>

JumpStartModelHeaderNew == \E j \in Jsons("JumpStartModelHeader") : NewHolder("JumpStartModelHeader", j)

JumpStartECRSpecsNew == \E j \in Jsons("JumpStartECRSpecs") : NewHolder("JumpStartECRSpecs", j)

JumpStartModelSpecsNew == \E j \in Jsons("JumpStartModelSpecs") : NewHolder("JumpStartModelSpecs", j)

\* x.from_json(json_obj) on the holder the caller has: the attributes
\* assigned before an error stay assigned
FromJson(type, json_obj) ==
    /\ args.op = type
    /\ Len(heap) = 1
    /\ "to_json" \notin DOMAIN returned
    /\ last.n < MaxFromJson
    /\ LET s == from_json(type, heap[1].attrs, json_obj)
       IN /\ heap' = <<Holder(type, s.attrs)>>
          /\ outcome' = IF s.raised = "" THEN "ok" ELSE s.raised
          /\ returned' = Record(returned, "from_json", IF s.raised = "" THEN None ELSE Raised(s.raised))
    /\ last' = [step |-> "from_json", json |-> D(json_obj), heap |-> heap, n |-> last.n + 1]
    /\ UNCHANGED <<args, rules, request, calls>>

JumpStartModelHeaderFromJson == \E j \in Jsons("JumpStartModelHeader") : FromJson("JumpStartModelHeader", j)

JumpStartECRSpecsFromJson == \E j \in Jsons("JumpStartECRSpecs") : FromJson("JumpStartECRSpecs", j)

JumpStartModelSpecsFromJson == \E j \in Jsons("JumpStartModelSpecs") : FromJson("JumpStartModelSpecs", j)

\* x.to_json()
ToJson(type) ==
    /\ args.op = type
    /\ Len(heap) = 1
    /\ "to_json" \notin DOMAIN returned
    /\ heap' = heap
    /\ outcome' = "ok"
    /\ returned' = Record(returned, "to_json", D(to_json(heap[1])))
    /\ last' = [step |-> "to_json", json |-> last.json, heap |-> heap, n |-> last.n]
    /\ UNCHANGED <<args, rules, request, calls>>

JumpStartModelHeaderToJson == ToJson("JumpStartModelHeader")

JumpStartECRSpecsToJson == ToJson("JumpStartECRSpecs")

JumpStartModelSpecsToJson == ToJson("JumpStartModelSpecs")

\* <type>(x.to_json()): a second holder, built from what to_json returned
NewFromToJson ==
    /\ args.op \in JsonTypes
    /\ Len(heap) = 1
    /\ "to_json" \in DOMAIN returned
    /\ "copy" \notin DOMAIN returned
    /\ LET s == from_json(args.op, <<>>, returned["to_json"].d)
       IN /\ heap' = IF s.raised = "" THEN Append(heap, Holder(args.op, s.attrs)) ELSE heap
          /\ outcome' = IF s.raised = "" THEN "ok" ELSE s.raised
          /\ returned' = Record(returned, "copy", IF s.raised = "" THEN Ref(2) ELSE Raised(s.raised))
    /\ last' = [step |-> "copy", json |-> last.json, heap |-> heap, n |-> last.n]
    /\ UNCHANGED <<args, rules, request, calls>>

\* x.__eq__(y)
HolderEq ==
    /\ args.other.t = "ref" => Len(heap) = 2
    /\ Len(heap) >= 1
    /\ "__eq__" \notin DOMAIN returned
    /\ heap' = heap
    /\ outcome' = "ok"
    /\ returned' = Record(returned, "__eq__", B(JumpStartDataHolderType_eq(heap[1], Deref(heap, args.other))))
    /\ last' = [step |-> "__eq__", json |-> last.json, heap |-> heap, n |-> last.n]
    /\ UNCHANGED <<args, rules, request, calls>>

\* hash(x), hash(y): of two holders being compared, or of a holder and
\* its copy
HolderHash ==
    /\ args.op = "compare" \/ Len(heap) = 2
    /\ \E operand \in {"self", "other"} :
          LET label == "hash(" \o operand \o ")"
              obj == IF operand = "self" THEN heap[1] ELSE Deref(heap, args.other)
              res == JumpStartDataHolderType_hash(obj)
          IN /\ obj.t = "holder"
             /\ label \notin DOMAIN returned
             /\ returned' = Record(returned, label, res)
             /\ outcome' = IF res.t = "raised" THEN res.err ELSE "ok"
    /\ heap' = heap
    /\ last' = [step |-> "__hash__", json |-> last.json, heap |-> heap, n |-> last.n]
    /\ UNCHANGED <<args, rules, request, calls>>

HolderNext ==
    \/ JumpStartModelHeaderNew
    \/ JumpStartECRSpecsNew
    \/ JumpStartModelSpecsNew
    \/ JumpStartModelHeaderFromJson
    \/ JumpStartECRSpecsFromJson
    \/ JumpStartModelSpecsFromJson
    \/ JumpStartModelHeaderToJson
    \/ JumpStartECRSpecsToJson
    \/ JumpStartModelSpecsToJson
    \/ NewFromToJson
    \/ HolderEq
    \/ HolderHash

HolderSpec == HolderInit /\ [][HolderNext]_vars

---------------------------------------------------------------------------
(* Vocabulary of the properties of the data holders *)

\* the two operands of the last __eq__ call
Left == heap[1]
Right == Deref(heap, args.other)

\* the right operand is an object of exactly the class of the left one
\* and holds equal attributes
SameTypeSameAttributes ==
    /\ Right.t = "holder"
    /\ Right.type = Left.type
    /\ Right.attrs = Left.attrs

\* C14 (as stated): x.__eq__(y) is true exactly when y has the very class
\* of x and every declared attribute is equal; it is false for every y of
\* another class, a subclass of x's class that declares no attribute
\* included.
C14_AsStated == Made("__eq__") => returned["__eq__"] = B(SameTypeSameAttributes)

\* the holders of class JumpStartModelSpecs the caller has
ModelSpecsHeld ==
    {i \in 1..Len(heap) : heap[i].t = "holder" /\ heap[i].type = "JumpStartModelSpecs"}

\* C15: after any sequence of from_json calls on a JumpStartModelSpecs
\* object, failed ones included, training_supported false means that
\* training_ecr_specs, training_artifact_key, training_script_key and
\* hyperparameters are all None.
C15_TrainingCleared ==
    \A i \in ModelSpecsHeld :
        Get(heap[i].attrs, "training_supported", None) = B(FALSE) =>
            \A k \in TrainingKeys : Get(heap[i].attrs, k, S("unset")) = None

\* C15 witness: a from_json call for a trainable model has failed part-way
\* on an object that cannot be trained: model_id is overwritten,
\* training_supported is still false
C15_Witness ==
    /\ args.op = "JumpStartModelSpecs"
    /\ last.step = "from_json"
    /\ outcome = "KeyError"
    /\ Get(last.json.d, "training_supported", None) = B(TRUE)
    /\ heap[1].attrs["training_supported"] = B(FALSE)
    /\ heap[1].attrs["model_id"] # last.heap[1].attrs["model_id"]

\* the first holder is valid: it was built, and the last from_json call
\* on it, if any, returned
Valid == args.op \in JsonTypes /\ Gave("__init__", Ref(1)) /\ (Made("from_json") => Gave("from_json", None))

\* C16: for a valid header, ECR specs or model specs x, building a holder
\* of the same class from x.to_json() succeeds and gives an object equal
\* to x; the mapping to_json returns for model specs holds its nested ECR
\* specs as plain mappings, never as holders.
C16_RoundTrip ==
    Valid =>
        /\ Made("copy") => returned["copy"] = Ref(2)
        /\ Made("__eq__") => (returned["__eq__"] = B(TRUE) /\ heap[2].type = heap[1].type)
        /\ Made("to_json") =>
              /\ \A k \in DOMAIN returned["to_json"].d : returned["to_json"].d[k].t # "holder"
              /\ args.op = "JumpStartModelSpecs" =>
                    /\ returned["to_json"].d["hosting_ecr_specs"] = D(SlotsToJson(heap[1].attrs["hosting_ecr_specs"]))
                    /\ heap[1].attrs["training_supported"] = B(TRUE) =>
                          returned["to_json"].d["training_ecr_specs"] = D(SlotsToJson(heap[1].attrs["training_ecr_specs"]))

\* C16 witness: a trainable model specs object, reloaded once by
\* from_json, has been copied through to_json and the copy compared equal
C16_Witness ==
    /\ args.op = "JumpStartModelSpecs"
    /\ Valid
    /\ Made("from_json")
    /\ heap[1].attrs["training_supported"] = B(TRUE)
    /\ Gave("__eq__", B(TRUE))

\* a nested ECR mapping is there and has the three keys
HasECRKeys(json_obj, att) ==
    /\ att \in DOMAIN json_obj
    /\ json_obj[att].t = "dict"
    /\ SlotNames("JumpStartECRSpecs") \subseteq DOMAIN json_obj[att].d

\* the mapping has every key its class requires
HasRequired(type, json_obj) ==
    IF type # "JumpStartModelSpecs" THEN SlotNames(type) \subseteq DOMAIN json_obj
    ELSE /\ SlotNames(type) \ TrainingKeys \subseteq DOMAIN json_obj
         /\ HasECRKeys(json_obj, "hosting_ecr_specs")
         /\ json_obj["training_supported"] = B(TRUE) =>
               /\ TrainingKeys \ {"hyperparameters"} \subseteq DOMAIN json_obj
               /\ HasECRKeys(json_obj, "training_ecr_specs")

\* the last step gave a mapping to the first holder
Loaded == args.op \in JsonTypes /\ last.step \in {"__init__", "from_json"}

\* C17: from_json, and so construction, fails with KeyError exactly when
\* a required key is absent from the mapping; for model specs the keys
\* training_ecr_specs, training_artifact_key and training_script_key are
\* required exactly when training_supported is true, and hyperparameters
\* never is.
C17_RequiredKeys ==
    Loaded =>
        /\ outcome \in {"ok", "KeyError"}
        /\ outcome = "KeyError" <=> ~HasRequired(args.op, last.json.d)

\* C17 witness: a model specs mapping with training_supported false and
\* no training key at all has been accepted
C17_Witness ==
    /\ Loaded
    /\ args.op = "JumpStartModelSpecs"
    /\ outcome = "ok"
    /\ DOMAIN last.json.d = SlotNames("JumpStartModelSpecs") \ TrainingKeys

\* a valid header or ECR specs object has been turned into a mapping
Dumped == Valid /\ args.op \in {"JumpStartModelHeader", "JumpStartECRSpecs"} /\ Made("to_json")

\* C20 (as stated): for every mapping j a header or an ECR specs object
\* accepts, the object's to_json() equals j: same keys, same values.
C20_AsStated == Dumped => returned["to_json"] = last.json

\* C20 (amended): for every mapping j a header or an ECR specs object
\* accepts, the object's to_json() equals j restricted to the declared
\* attributes: its keys are the declared attributes and each has the value
\* j gives it; the other keys of j are dropped.
C20_ToJson ==
    Dumped => returned["to_json"] = D([k \in SlotNames(args.op) |-> Get(last.json.d, k, None)])

\* C20 witness: a header built from a mapping with one more key than the
\* declared attributes has returned a mapping without that key
C20_Witness ==
    /\ Dumped
    /\ args.op = "JumpStartModelHeader"
    /\ "url" \in DOMAIN last.json.d
    /\ "url" \notin DOMAIN returned["to_json"].d

---------------------------------------------------------------------------
(* sagemaker.model_uris.retrieve *)

\* jumpstart_utils.is_jumpstart_model_input(model_id, version): both are
\* present and well-formed by the catalog's identifier rules, which the
\* catalog of the behaviour decides
is_jumpstart_model_input(model_id, version, catalog) ==
    /\ model_id # None
    /\ version # None
    /\ catalog.well_formed

\* the URI the resolver gives for a supported scope
ArtifactUri(model_id, model_version, model_scope, region) ==
    S("s3://jumpstart-cache-prod-" \o (IF region = None THEN "us-west-2" ELSE region.s) \o "/" \o
      model_id.s \o "/" \o model_scope.s \o "/" \o model_version.s)

\* artifacts._retrieve_model_uri: a URI string, or a typed error for an
\* unsupported scope, a vulnerable model or a deprecated model
retrieve_model_uri(model_id, model_version, model_scope, region, tolerate_vulnerable_model, tolerate_deprecated_model, catalog) ==
    IF model_scope \notin {S("training"), S("inference")} THEN Raised("NotImplementedError")
    ELSE IF catalog.vulnerable /\ ~tolerate_vulnerable_model.b THEN Raised("VulnerableJumpStartModelError")
    ELSE IF catalog.deprecated /\ ~tolerate_deprecated_model.b THEN Raised("DeprecatedJumpStartModelError")
    ELSE ArtifactUri(model_id, model_version, model_scope, region)

\* an invocation of the resolver: its positional arguments and what it
\* returned or raised
Invocation(arguments, response) == [arguments |-> arguments, response |-> response]

\* the result of retrieve: what it returns or raises, and the
\* invocations of the resolver it made
Retrieved(response, invocations) == [response |-> response, calls |-> invocations]

\* mutant: the resolver is invoked before the arguments are checked
retrieve_ResolveFirst(region, model_id, model_version, model_scope, tolerate_vulnerable_model, tolerate_deprecated_model, catalog) ==
    LET arguments == <<model_id, model_version, model_scope, region, tolerate_vulnerable_model, tolerate_deprecated_model>>
        response == IF model_id = None \/ model_version = None THEN Raised("TypeError")
                    ELSE retrieve_model_uri(model_id, model_version, model_scope, region, tolerate_vulnerable_model, tolerate_deprecated_model, catalog)
    IN IF ~is_jumpstart_model_input(model_id, model_version, catalog)
       THEN Retrieved(Raised("ValueError"), <<Invocation(arguments, response)>>)
       ELSE Retrieved(response, <<Invocation(arguments, response)>>)

\* mutant: region and model_scope are passed in the order retrieve takes them
retrieve_RegionFirst(region, model_id, model_version, model_scope, tolerate_vulnerable_model, tolerate_deprecated_model, catalog) ==
    IF ~is_jumpstart_model_input(model_id, model_version, catalog)
    THEN Retrieved(Raised("ValueError"), <<>>)
    ELSE LET arguments == <<model_id, model_version, region, model_scope, tolerate_vulnerable_model, tolerate_deprecated_model>>
             response == retrieve_model_uri(model_id, model_version, region, model_scope, tolerate_vulnerable_model, tolerate_deprecated_model, catalog)
         IN Retrieved(response, <<Invocation(arguments, response)>>)

\* model_uris.retrieve
retrieve(region, model_id, model_version, model_scope, tolerate_vulnerable_model, tolerate_deprecated_model, catalog) ==
    IF ~is_jumpstart_model_input(model_id, model_version, catalog)
    THEN Retrieved(Raised("ValueError"), <<>>)
    ELSE LET arguments == <<model_id, model_version, model_scope, region, tolerate_vulnerable_model, tolerate_deprecated_model>>
             response == retrieve_model_uri(model_id, model_version, model_scope, region, tolerate_vulnerable_model, tolerate_deprecated_model, catalog)
         IN Retrieved(response, <<Invocation(arguments, response)>>)

Regions == {None, S("us-west-2"), S("eu-west-1")}
Scopes == {None, S("training"), S("inference"), S("eia")}
Flags == {B(FALSE), B(TRUE)}

\* what the catalog holds about the model asked for
Catalogs == [well_formed : BOOLEAN, vulnerable : BOOLEAN, deprecated : BOOLEAN]

RetrieveArgs ==
    [op : {"retrieve"},
     region : Regions,
     model_id : {None} \cup ModelIds,
     model_version : {None} \cup Versions,
     model_scope : Scopes,
     tolerate_vulnerable_model : Flags,
     tolerate_deprecated_model : Flags,
     catalog : Catalogs]

RetrieveInit ==
    /\ args \in RetrieveArgs
    /\ heap = <<>>
    /\ rules = <<>>
    /\ outcome = "none"
    /\ request = None
    /\ last = NoStep
    /\ returned = <<>>
    /\ calls = <<>>

\* retrieve(...) with the caller's arguments
Retrieve ==
    /\ args.op = "retrieve"
    /\ outcome = "none"
    /\ LET res == retrieve(args.region, args.model_id, args.model_version, args.model_scope, args.tolerate_vulnerable_model, args.tolerate_deprecated_model, args.catalog)
       IN /\ calls' = calls \o res.calls
          /\ returned' = Record(returned, "retrieve", res.response)
          /\ outcome' = IF res.response.t = "raised" THEN res.response.err ELSE "ok"
    /\ last' = [step |-> "retrieve", rule |-> 0, heap |-> heap]
    /\ UNCHANGED <<args, heap, rules, request>>

RetrieveNext == Retrieve

RetrieveSpec == RetrieveInit /\ [][RetrieveNext]_vars

---------------------------------------------------------------------------
(* Vocabulary of the properties of retrieve *)

\* model_id and model_version are both present and well-formed
ValidInput ==
    args.model_id # None /\ args.model_version # None /\ args.catalog.well_formed

\* C18: retrieve fails with ValueError unless model_id and model_version
\* are both present and well-formed by the catalog's input check; when it
\* fails so, the artifact resolver is never invoked.
C18_Validation ==
    (Made("retrieve") /\ ~ValidInput) =>
        /\ returned["retrieve"] = Raised("ValueError")
        /\ outcome = "ValueError"
        /\ calls = <<>>

\* C18 witness: retrieve(model_id=None, model_version="1.0.0") has failed
\* with ValueError without an invocation of the resolver
C18_Witness ==
    /\ Gave("retrieve", Raised("ValueError"))
    /\ args.model_id = None
    /\ args.model_version = S("1.0.0")
    /\ args.model_scope = S("training")
    /\ calls = <<>>

\* C19: when validation passes, retrieve invokes the resolver exactly
\* once, with (model_id, model_version, model_scope, region,
\* tolerate_vulnerable_model, tolerate_deprecated_model) as the caller
\* gave them, and returns what the resolver returns or raises what it
\* raises, unchanged.
C19_Delegation ==
    (Made("retrieve") /\ ValidInput) =>
        /\ Len(calls) = 1
        /\ calls[1].arguments = <<args.model_id, args.model_version, args.model_scope, args.region,
                                  args.tolerate_vulnerable_model, args.tolerate_deprecated_model>>
        /\ returned["retrieve"] = calls[1].response
        /\ outcome = IF calls[1].response.t = "raised" THEN calls[1].response.err ELSE "ok"

\* C19 witness: the resolver has raised VulnerableJumpStartModelError for
\* valid arguments with a region and a scope, and retrieve has raised it
C19_Witness ==
    /\ ValidInput
    /\ args.region = S("eu-west-1")
    /\ args.model_scope = S("inference")
    /\ Len(calls) = 1
    /\ Gave("retrieve", Raised("VulnerableJumpStartModelError"))

---------------------------------------------------------------------------
(* Properties of the hash of the data holders *)

\* both operands of a comparison have been hashed
BothHashed == Made("hash(self)") /\ Made("hash(other)")

\* C21 (as stated): the hash of a holder is a function of its class and
\* its declared attribute values: two holders that compare equal have
\* equal hashes, and two holders of different classes with identical
\* attribute values are hashed from different tuples.
C21_AsStated ==
    BothHashed =>
        /\ Gave("__eq__", B(TRUE)) => returned["hash(self)"] = returned["hash(other)"]
        /\ (Right.type # Left.type /\ Right.attrs = Left.attrs /\ returned["hash(self)"].t = "hash")
               => returned["hash(self)"] # returned["hash(other)"]

---------------------------------------------------------------------------
(* Properties of the rules as objects: what serialization and the         *)
(* factories leave alone                                                   *)

\* C22 (as stated): serialization is read-only: after a call of
\* to_debugger_rule_config_dict or to_profiler_rule_config_dict the keys
\* and values of the serialized rule's rule_parameters mapping are what
\* they were before the call.
C22_AsStated ==
    (last.step \in Serializers /\ Serialized.rule_parameters.t = "ref") =>
        ParamsOf(Serialized) = ParamsBefore

\* the mapping the base config of ProfilerRule.sagemaker holds, now and
\* when the last step began
BaseParams == heap[args.base_config.rule_parameters.id]
BaseParamsBefore == last.heap[args.base_config.rule_parameters.id]

\* the rules, other than the one the last step built or serialized, that
\* existed when the last step began
OtherRules ==
    {i \in 1..Len(rules) : i # last.rule /\ rules[i].rule_parameters.t = "ref"
                             /\ rules[i].rule_parameters.id <= Len(last.heap)}

\* C23 (as stated): building a rule from a base config b by
\* ProfilerRule.sagemaker, or serializing such a rule, changes neither the
\* rule_parameters of b nor the rule_parameters seen on another rule
\* built from b.
C23_AsStated ==
    (args.op = "ProfilerRule.sagemaker" /\ args.base_config.rule_parameters.t = "ref"
        /\ last.step # "none") =>
        /\ BaseParams = BaseParamsBefore
        /\ \A i \in OtherRules : ParamsOf(rules[i]) = last.heap[rules[i].rule_parameters.id]

\* C24 (as stated): after a successful Rule.sagemaker call the rule's
\* rule_parameters hold rule_to_invoke with the base config's default
\* value when the defaults have one, and hold no rule_to_invoke key when
\* they have none.
C24_AsStated ==
    Succeeded("Rule.sagemaker") =>
        IF "rule_to_invoke" \in DOMAIN Defaults
        THEN /\ "rule_to_invoke" \in DOMAIN ParamsOf(Built)
             /\ ParamsOf(Built)["rule_to_invoke"] = Defaults["rule_to_invoke"]
        ELSE "rule_to_invoke" \notin DOMAIN ParamsOf(Built)

---------------------------------------------------------------------------
(* Properties of a failed from_json *)

\* the order in which from_json reads the attributes of a class
ReadOrder(type) ==
    IF type = "JumpStartECRSpecs" THEN <<"framework", "framework_version", "py_version">>
    ELSE Slots(type).items

\* from_json can set attribute att from the mapping: its key is there (with
\* the three keys of a nested ECR mapping); hyperparameters, and the
\* training attributes of a model that cannot be trained, need no key
Readable(type, json_obj, att) ==
    IF type # "JumpStartModelSpecs" THEN att \in DOMAIN json_obj
    ELSE IF att \in TrainingKeys /\ (att = "hyperparameters" \/ Get(json_obj, "training_supported", None) # B(TRUE))
         THEN TRUE
    ELSE IF att \in {"hosting_ecr_specs", "training_ecr_specs"} THEN HasECRKeys(json_obj, att)
    ELSE att \in DOMAIN json_obj

\* the value from_json gives attribute att that it can set (the flags of
\* the mappings are booleans)
NewValue(type, json_obj, att) ==
    IF type = "JumpStartModelSpecs" /\ att \in {"hosting_ecr_specs", "training_ecr_specs"}
    THEN Holder("JumpStartECRSpecs", [k \in SlotNames("JumpStartECRSpecs") |-> json_obj[att].d[k]])
    ELSE json_obj[att]

\* the last step was a from_json call on a built holder that raised KeyError
FromJsonFailed == args.op \in JsonTypes /\ last.step = "from_json" /\ outcome = "KeyError"

\* C25 (as stated): when from_json on a built header, ECR specs or model
\* specs fails with KeyError, every attribute of the object has the value
\* it had before the call.
C25_AsStated == FromJsonFailed => heap[1].attrs = last.heap[1].attrs

\* C25 (amended): when from_json on a built header, ECR specs or model
\* specs fails with KeyError, the attributes read before the first one
\* whose key is missing have the values of the new mapping, and that
\* attribute and every later one have the value they had before the call.
C25_PartialUpdate ==
    FromJsonFailed =>
        LET order == ReadOrder(args.op)
            j == last.json.d
        IN \E p \in 1..Len(order) :
              /\ ~Readable(args.op, j, order[p])
              /\ \A i \in 1..(p - 1) :
                    /\ Readable(args.op, j, order[i])
                    /\ heap[1].attrs[order[i]] = NewValue(args.op, j, order[i])
              /\ \A i \in p..Len(order) : heap[1].attrs[order[i]] = last.heap[1].attrs[order[i]]

\* C25 witness: from_json on a header has failed on a mapping without
\* spec_key: min_version has changed and spec_key has not
C25_Witness ==
    /\ FromJsonFailed
    /\ args.op = "JumpStartModelHeader"
    /\ "spec_key" \notin DOMAIN last.json.d
    /\ heap[1].attrs["min_version"] # last.heap[1].attrs["min_version"]
    /\ heap[1].attrs["spec_key"] = last.heap[1].attrs["spec_key"]

====
